---- MODULE Spec2Model ----
(***************************************************************************)
(* A model of migrate-clerk-users: the importer's main loop around a       *)
(* p-queue work queue (src/unnamed/part_002, main), the per-record         *)
(* reconciliation against the remote user service (findOrCreateUser,       *)
(* processLine) and the throttle handling (pause / re-submit / sleep /     *)
(* start).                                                                 *)
(*                                                                         *)
(* Specifications:                                                         *)
(*   Spec           the import run: admitter, queue, jobs, catch handlers, *)
(*                  timers, summary and process exit.                      *)
(*   SpecLive       Spec under the scheduling of the event loop.           *)
(*   SpecScenario   the import run over a six-record export.               *)
(*   SpecReconcile  processLine / findOrCreateUser applied to one record   *)
(*                  under every script of remote responses.                *)
(*   SpecRemote     findOrCreateUser, call by call, against a service that *)
(*                  keeps its users, with the retry after a throttle.      *)
(*   SpecSource     userExportStream on a JSON array of flat records.      *)
(*   SpecNested     userExportStream on records with nested values.        *)
(*   SpecCsv        userExportStream on one row of a CSV export.           *)
(*   SpecNdjson     ndjsonStream, the source of the first importer.        *)
(*                                                                         *)
(* Optional values (undefined / null in the source) are sequences of       *)
(* length at most one: << >> is "absent", <<v>> is the value v.            *)
(* Strings whose content matters (email_addresses) are sequences of        *)
(* one-character strings.                                                  *)
(***************************************************************************)
EXTENDS Integers, Sequences, FiniteSets, TLC

-----------------------------------------------------------------------------
(* Bounds of the model *)

\* number of records in the longest export file considered
NumRecords == 3
\* number of throttle signals the remote service raises in one run
MaxThrottles == 2
\* largest retry-after (seconds) a throttle signal carries
MaxRetryAfter == 0
\* the concurrency ceiling of the work queue. The source sets 10
\* (part_002:165); the model runs the same code with a smaller ceiling.
MAX_CONCURRENT_USER_IMPORTS == 2

(* Program constants *)
DEFAULT_RETRY_AFTER == 10

-----------------------------------------------------------------------------
(* Values *)

Absent == << >>
Some(v) == <<v>>
IsPresent(o) == Len(o) > 0
The(o) == o[1]

\* JavaScript truthiness of a nullable string: null, undefined and "" are falsy
Truthy(o) == IsPresent(o) /\ The(o) # ""

EmailVerifiedModes == {"never", "always", "from-csv"}

\* String.prototype.toLowerCase on the model's alphabet
LowerChar(c) == IF c = "A" THEN "a" ELSE IF c = "B" THEN "b" ELSE c
ToLowerCase(s) == [i \in 1..Len(s) |-> LowerChar(s[i])]

\* String.prototype.split("|"): always at least one segment, empty segments kept
RECURSIVE SplitFrom(_, _, _)
SplitFrom(s, cur, acc) ==
  IF s = << >> THEN Append(acc, cur)
  ELSE IF Head(s) = "|" THEN SplitFrom(Tail(s), << >>, Append(acc, cur))
  ELSE SplitFrom(Tail(s), Append(cur, Head(s)), acc)
SplitPipe(s) == SplitFrom(s, << >>, << >>)

-----------------------------------------------------------------------------
(* ClerkExportedUser.parse: id and email_addresses are required strings;   *)
(* z.object drops the keys the schema does not name, so the parsed value   *)
(* carries no primary_email_verified.                                      *)

ParseOk(line) == IsPresent(line.id) /\ IsPresent(line.email_addresses)

ClerkExportedUserParse(line) ==
  [id |-> The(line.id),
   email_addresses |-> The(line.email_addresses),
   password_digest |-> line.password_digest,
   primary_email_verified |-> Absent]

ShouldMarkEmailVerified(exportedUser, mode) ==
  IF mode = "always" THEN TRUE
  ELSE IF mode = "from-csv" THEN exportedUser.primary_email_verified = Some(TRUE)
  ELSE FALSE

-----------------------------------------------------------------------------
(* The remote service. Every call answers "ok", "error" (any failure that  *)
(* is not a rate limit) or "ratelimit", the last with an optional          *)
(* retry-after; listUsers answers "ok" with its matches.                   *)

RetryAfterValues == {Absent} \cup {Some(n) : n \in 0..MaxRetryAfter}
Answer(status, ra) == [status |-> status, retryAfter |-> ra]
Answers ==
  {Answer("ok", Absent), Answer("error", Absent)}
    \cup {Answer("ratelimit", ra) : ra \in RetryAfterValues}
ListData == {<< >>, <<"wos_existing">>, <<"wos_existing", "wos_other">>}

RateLimitExceededException(ra) == [type |-> "RateLimitExceededException", retryAfter |-> ra]
OtherError == [type |-> "Error", retryAfter |-> Absent]
NoError == [type |-> "none", retryAfter |-> Absent]
IsRateLimit(e) == e.type = "RateLimitExceededException"

\* what a call that did not answer "ok" throws
ErrorOf(answer) ==
  IF answer.status = "ratelimit"
  THEN RateLimitExceededException(answer.retryAfter) ELSE OtherError

\* the ways findOrCreateUser ends
ReturnUser(id, calls) == [kind |-> "user", id |-> id, error |-> NoError, calls |-> calls]
ReturnFalse(calls) == [kind |-> "false", id |-> "", error |-> NoError, calls |-> calls]
ReturnUndefined(calls) == [kind |-> "undefined", id |-> "", error |-> NoError, calls |-> calls]
Throw(e, calls) == [kind |-> "throw", id |-> "", error |-> e, calls |-> calls]

\* a remote call as the service saw it, with the answer it gave
CreateCall(email, pw, answer) ==
  [op |-> "createUser", email |-> email, userId |-> "",
   passwordHash |-> IF Truthy(pw) THEN pw ELSE Absent, emailVerified |-> FALSE,
   answer |-> answer, data |-> << >>]
ListCall(email, answer, data) ==
  [op |-> "listUsers", email |-> email, userId |-> "",
   passwordHash |-> Absent, emailVerified |-> FALSE,
   answer |-> answer, data |-> IF answer.status = "ok" THEN data ELSE << >>]
PasswordCall(id, pw, answer) ==
  [op |-> "updateUser", email |-> << >>, userId |-> id,
   passwordHash |-> pw, emailVerified |-> FALSE,
   answer |-> answer, data |-> << >>]
VerifyCall(id, answer) ==
  [op |-> "updateUser", email |-> << >>, userId |-> id,
   passwordHash |-> Absent, emailVerified |-> TRUE,
   answer |-> answer, data |-> << >>]

-----------------------------------------------------------------------------
(* findOrCreateUser (part_002:40-135): the set of ways one call can end,   *)
(* over every answer of the remote service to the calls it makes. A result *)
(* carries the remote calls made, in order.                                *)

WosCreatedId == "wos_created"

\* a verification step that lets every failure of the update escape
VerifyExistingStepStrict(exportedUser, mode, existingId, calls) ==
  IF ShouldMarkEmailVerified(exportedUser, mode)
  THEN {LET c == Append(calls, VerifyCall(existingId, a)) IN
        IF a.status # "ok" THEN Throw(ErrorOf(a), c) ELSE ReturnUser(existingId, c)
          : a \in Answers}
  ELSE {ReturnUser(existingId, calls)}

\* lines 117-132: the verification step on the matched user, then return it
VerifyExistingStep(exportedUser, mode, existingId, calls) ==
  IF ShouldMarkEmailVerified(exportedUser, mode)
  THEN {LET c == Append(calls, VerifyCall(existingId, a)) IN
        IF a.status = "ratelimit" THEN Throw(ErrorOf(a), c) ELSE ReturnUser(existingId, c)
          : a \in Answers}
  ELSE {ReturnUser(existingId, calls)}

\* lines 98-116: the password update on the matched user
UpdatePasswordStep(exportedUser, mode, existingId, calls) ==
  IF Truthy(exportedUser.password_digest)
  THEN UNION {LET c == Append(calls, PasswordCall(existingId, exportedUser.password_digest, a)) IN
              IF a.status = "ratelimit" THEN {Throw(ErrorOf(a), c)}
              ELSE VerifyExistingStep(exportedUser, mode, existingId, c)
                : a \in Answers}
  ELSE VerifyExistingStep(exportedUser, mode, existingId, calls)

\* a lookup that takes the first match whenever there is one
LookupStepFirstMatch(exportedUser, mode, email, calls) ==
  UNION {LET c == Append(calls, ListCall(ToLowerCase(email), a, data)) IN
         IF a.status # "ok" THEN {Throw(ErrorOf(a), c)}
         ELSE IF Len(data) >= 1
              THEN UpdatePasswordStep(exportedUser, mode, data[1], c)
              ELSE {ReturnUndefined(c)}
           : a \in Answers, data \in ListData}

\* lines 93-134: the lookup by lowercased email and what follows it
LookupStep(exportedUser, mode, email, calls) ==
  UNION {LET c == Append(calls, ListCall(ToLowerCase(email), a, data)) IN
         IF a.status # "ok" THEN {Throw(ErrorOf(a), c)}
         ELSE IF Len(data) = 1
              THEN UpdatePasswordStep(exportedUser, mode, data[1], c)
              ELSE {ReturnUndefined(c)}
           : a \in Answers, data \in ListData}

\* a catch block that falls back to the lookup whatever was thrown
CatchBlockSwallows(exportedUser, mode, email, error, calls) ==
  LookupStep(exportedUser, mode, email, calls)

\* lines 88-134: the catch block of the create attempt
CatchBlock(exportedUser, mode, email, error, calls) ==
  IF IsRateLimit(error) THEN {Throw(error, calls)}
  ELSE LookupStep(exportedUser, mode, email, calls)

\* lines 72-87: the verification of the created user; what it throws is caught at line 88
VerifyCreatedStep(exportedUser, mode, email, calls) ==
  IF ShouldMarkEmailVerified(exportedUser, mode)
  THEN UNION {LET c == Append(calls, VerifyCall(WosCreatedId, a)) IN
              IF a.status = "ratelimit"
              THEN CatchBlock(exportedUser, mode, email, ErrorOf(a), c)
              ELSE {ReturnUser(WosCreatedId, c)}
                : a \in Answers}
  ELSE {ReturnUser(WosCreatedId, calls)}

\* lines 58-87: the create attempt
TryBlock(exportedUser, mode, email) ==
  UNION {LET c == <<CreateCall(email, exportedUser.password_digest, a)>> IN
         IF a.status # "ok"
         THEN CatchBlock(exportedUser, mode, email, ErrorOf(a), c)
         ELSE VerifyCreatedStep(exportedUser, mode, email, c)
           : a \in Answers}

\* a guard that lets two addresses through
SkipsMoreThanTwo(emailAddresses, pme) == Len(emailAddresses) > 2 /\ ~pme

\* a guard with the flag the wrong way round
SkipsWhenEnabled(emailAddresses, pme) == Len(emailAddresses) > 1 /\ pme

\* line 51: the multi-email guard
SkipsMultiEmail(emailAddresses, pme) == Len(emailAddresses) > 1 /\ ~pme

FindOrCreateUser(exportedUser, pme, mode) ==
  LET emailAddresses == SplitPipe(exportedUser.email_addresses)
      email == emailAddresses[1]
  IN IF SkipsMultiEmail(emailAddresses, pme)
     THEN {ReturnFalse(<< >>)}
     ELSE TryBlock(exportedUser, mode, email)

\* processLine (part_002:137-162): parse, reconcile, turn the user into a boolean
ZodError == [type |-> "ZodError", retryAfter |-> Absent]

ProcessLineResult(workOsUser) ==
  IF workOsUser.kind = "throw"
  THEN [kind |-> "throw", error |-> workOsUser.error, workOsUser |-> workOsUser]
  ELSE IF workOsUser.kind = "user"
       THEN [kind |-> "true", error |-> NoError, workOsUser |-> workOsUser]
       ELSE [kind |-> "false", error |-> NoError, workOsUser |-> workOsUser]

ProcessLine(line, pme, mode) ==
  IF ~ParseOk(line)
  THEN {[kind |-> "throw", error |-> ZodError, workOsUser |-> Throw(ZodError, << >>)]}
  ELSE {ProcessLineResult(w) : w \in FindOrCreateUser(ClerkExportedUserParse(line), pme, mode)}

-----------------------------------------------------------------------------
(* The CSV branch of userExportStream (part_003:166-232): a row of the     *)
(* Clerk CSV export becomes the object processLine is given.               *)

\* String.prototype.trim on the model's alphabet
RECURSIVE TrimStart(_)
TrimStart(s) == IF s # << >> /\ Head(s) = " " THEN TrimStart(Tail(s)) ELSE s
RECURSIVE TrimEnd(_)
TrimEnd(s) ==
  IF s # << >> /\ s[Len(s)] = " " THEN TrimEnd(SubSeq(s, 1, Len(s) - 1)) ELSE s
Trim(s) == TrimEnd(TrimStart(s))

\* toNull (lines 166-170) on a column of characters, and on a password digest
ToNull(value) ==
  IF ~IsPresent(value) THEN Absent
  ELSE IF Trim(The(value)) = << >> THEN Absent ELSE Some(Trim(The(value)))
ToNullDigest(value) == IF Truthy(value) THEN value ELSE Absent

\* split(/[|,;]\s*/): a separator swallows the white space that follows it
IsListSeparator(c) == c \in {"|", ",", ";"}
RECURSIVE SplitListFrom(_, _, _, _)
SplitListFrom(s, cur, acc, afterSeparator) ==
  IF s = << >> THEN Append(acc, cur)
  ELSE IF IsListSeparator(Head(s))
       THEN SplitListFrom(Tail(s), << >>, Append(acc, cur), TRUE)
       ELSE IF Head(s) = " " /\ afterSeparator
            THEN SplitListFrom(Tail(s), cur, acc, TRUE)
            ELSE SplitListFrom(Tail(s), Append(cur, Head(s)), acc, FALSE)

\* .map((v) => v.trim()).filter(Boolean)
RECURSIVE TrimAndFilter(_)
TrimAndFilter(parts) ==
  IF parts = << >> THEN << >>
  ELSE (IF Trim(Head(parts)) = << >> THEN << >> ELSE <<Trim(Head(parts))>>)
         \o TrimAndFilter(Tail(parts))

\* splitList (lines 172-180)
SplitList(value) ==
  IF ~IsPresent(value) THEN << >>
  ELSE IF Trim(The(value)) = << >> THEN << >>
       ELSE TrimAndFilter(SplitListFrom(Trim(The(value)), << >>, << >>, FALSE))

\* an add closure that compares the addresses as they are written
RECURSIVE AddEmailsExact(_, _)
AddEmailsExact(emails, arr) ==
  IF arr = << >> THEN emails
  ELSE IF \E i \in 1..Len(emails) : emails[i] = Head(arr)
       THEN AddEmailsExact(emails, Tail(arr))
       ELSE AddEmailsExact(Append(emails, Head(arr)), Tail(arr))

\* the add closure of mergeEmails (lines 189-197): keep the first of every lowercased key
RECURSIVE AddEmails(_, _)
AddEmails(emails, arr) ==
  IF arr = << >> THEN emails
  ELSE IF \E i \in 1..Len(emails) : ToLowerCase(emails[i]) = ToLowerCase(Head(arr))
       THEN AddEmails(emails, Tail(arr))
       ELSE AddEmails(Append(emails, Head(arr)), Tail(arr))

\* Array.prototype.join("|")
RECURSIVE JoinPipe(_)
JoinPipe(emails) ==
  IF emails = << >> THEN << >>
  ELSE IF Len(emails) = 1 THEN Head(emails)
       ELSE Head(emails) \o <<"|">> \o JoinPipe(Tail(emails))

\* mergeEmails (lines 182-202)
MergeEmails(primary, verified, unverified) ==
  JoinPipe(AddEmails(AddEmails(AddEmails(<< >>, SplitList(primary)),
                               SplitList(verified)),
                     SplitList(unverified)))

\* lines 211-215: true / false when the row has a primary email, undefined otherwise
PrimaryEmailVerified(row) ==
  LET primary == ToNull(row.primary_email_address)
      verified == SplitList(row.verified_email_addresses)
  IN IF IsPresent(primary)
     THEN Some(\E i \in 1..Len(verified) :
                 ToLowerCase(verified[i]) = ToLowerCase(The(primary)))
     ELSE Absent

\* mapCsvRowToUser (lines 204-232)
MapCsvRowToUser(row) ==
  [id |-> Some(IF IsPresent(row.id) THEN The(row.id) ELSE ""),
   email_addresses |-> Some(MergeEmails(row.primary_email_address,
                                        row.verified_email_addresses,
                                        row.unverified_email_addresses)),
   password_digest |-> ToNullDigest(row.password_digest),
   primary_email_verified |-> PrimaryEmailVerified(row)]

-----------------------------------------------------------------------------
(* The import run *)

VARIABLES
  file,               \* the records the source yields, in file order
  processMultiEmail,  \* --process-multi-email
  emailVerifiedMode,  \* --email-verified
  fetched,            \* number of records the for-await loop has taken from the source
  mainPc,             \* where main() is: "pull", "sizeWait", "admit", "idleWait", "summary", "done"
  recordCount, completedCount, warningCount, errorCount,
  failures,           \* the failures array, in push order
  stepSuccess,        \* recordNumber -> number of logStepSuccess("Imported record #n") lines
  waiting,            \* p-queue: the units queued and not started, in order
  running,            \* p-queue: the units whose job has started and not finished (pending)
  isPaused,           \* p-queue: paused
  timers,             \* the sleeps of the catch callbacks: throttle number, seconds left
  unhandled,          \* a rejected promise nobody handles awaits the runtime's verdict
  proc,               \* "running" or "exited"
  exitCode,
  summary,            \* what printSummaryBox was given; Absent before
  reconIn, reconOut,  \* SpecReconcile: one processLine call and its result
  srcStatus,          \* SpecSource: the file stream: "open", "ended", "failed"
  srcDelivered,       \* number of values the JSON parser has handed to onValue
  srcQueue,           \* queue of userExportStream: values pushed and not yet yielded
  srcDone,            \* done of userExportStream
  deferredResolve,    \* TRUE when deferredResolve holds the resolver of a waiting consumer
  srcPc,              \* the generator: "idle", "await", "woken", "ended"
  srcYielded,         \* the values the consumer has received, in order
  pausedSeconds,      \* stopwatch: seconds that passed while the queue was paused
  waitSeconds,        \* stopwatch: sum of the waits of the throttles handled so far
  attempts,           \* history: recordNumber -> number of jobs the queue started for it
  throttledOf,        \* history: recordNumber -> number of throttles handled for it
  remoteUsers,        \* SpecRemote: the users of the remote service: id, email
  foc                 \* SpecRemote: the findOrCreateUser call of one record, attempt by attempt

inputVars == <<file, processMultiEmail, emailVerifiedMode>>
countVars == <<recordCount, completedCount, warningCount, errorCount, failures, stepSuccess>>
queueVars == <<waiting, running, isPaused>>
procVars == <<proc, exitCode>>
clockVars == <<pausedSeconds, waitSeconds>>
historyVars == <<attempts, throttledOf>>
remoteVars == <<remoteUsers, foc>>
engineVars ==
  <<inputVars, fetched, mainPc, countVars, queueVars, timers, unhandled, procVars, summary,
    clockVars, historyVars, remoteVars>>
reconVars == <<reconIn, reconOut>>
sourceVars == <<srcStatus, srcDelivered, srcQueue, srcDone, deferredResolve, srcPc, srcYielded>>
vars == <<engineVars, reconVars, sourceVars>>

\* the records a file is made of: a record without id (fails the schema),
\* a single-email record with a password digest, a two-email record
InvalidLine ==
  [id |-> Absent, email_addresses |-> Some(<<"A">>),
   password_digest |-> Absent, primary_email_verified |-> Absent]
SingleLine ==
  [id |-> Some("user_1"), email_addresses |-> Some(<<"A">>),
   password_digest |-> Some("$2b"), primary_email_verified |-> Absent]
MultiLine ==
  [id |-> Some("user_2"), email_addresses |-> Some(<<"A", "|", "b">>),
   password_digest |-> Absent, primary_email_verified |-> Absent]
RecordPool == {InvalidLine, SingleLine, MultiLine}

Files == UNION {[1..n -> RecordPool] : n \in 0..NumRecords}

\* the export of the six-record run: the second record has two email addresses
ScenarioFile == <<SingleLine, MultiLine, SingleLine, SingleLine, SingleLine, SingleLine>>

\* the record numbers a run can hand out
RecordNumbers ==
  1..(IF NumRecords > Len(ScenarioFile) THEN NumRecords ELSE Len(ScenarioFile))

\* the unit of work enqueueTask closes over: recordNumber and line
Unit(n, line) == [recordNumber |-> n, line |-> line]

-----------------------------------------------------------------------------
(* p-queue, as main() uses it: new Queue({concurrency}) (part_002:207),    *)
(* add, pause, start, onSizeLessThan, onIdle.                              *)

\* a ceiling test that is off by one
AllowsOneTooMany(pending) == pending <= MAX_CONCURRENT_USER_IMPORTS

DoesConcurrentAllowAnother(pending) == pending < MAX_CONCURRENT_USER_IMPORTS

QueueState(w, r) == [waiting |-> w, running |-> r]

CanStartAnother(q, paused) ==
  /\ Len(q.waiting) > 0
  /\ ~paused
  /\ DoesConcurrentAllowAnother(Cardinality(q.running))

\* tryToStartAnother: starts the head of the queue when allowed
TryToStartAnother(q, paused) ==
  IF CanStartAnother(q, paused)
  THEN QueueState(Tail(q.waiting), q.running \cup {Head(q.waiting)})
  ELSE q

\* tryToStartAnother emits 'idle' when it finds the queue empty and nothing pending
EmitsIdle(q) == Len(q.waiting) = 0 /\ q.running = {}

\* processQueue: while (tryToStartAnother()) {}
RECURSIVE ProcessQueue(_, _)
ProcessQueue(q, paused) ==
  IF CanStartAnother(q, paused)
  THEN ProcessQueue(TryToStartAnother(q, paused), paused)
  ELSE q

\* add(): enqueue, then tryToStartAnother
QueueAdd(q, paused, unit) ==
  TryToStartAnother(QueueState(Append(q.waiting, unit), q.running), paused)

\* a size test that lets the admitter through at the limit
SizeAtMost(q) == Len(q.waiting) <= MAX_CONCURRENT_USER_IMPORTS

\* onSizeLessThan(limit) returns at once, or at a 'next' event, when size < limit
SizeLessThan(q) == Len(q.waiting) < MAX_CONCURRENT_USER_IMPORTS

\* main() after the queue emitted its events: a listener of onIdle / onSizeLessThan
\* resolves the promise main awaits
MainAfterEvents(pc, idle, next, q) ==
  IF pc = "idleWait" /\ idle THEN "summary"
  ELSE IF pc = "sizeWait" /\ next /\ SizeLessThan(q) THEN "admit"
  ELSE pc

-----------------------------------------------------------------------------
(* The job enqueueTask adds (part_002:238-278) *)

PreviewFailed == [kind |-> "previewFailed", error |-> ZodError, workOsUser |-> Throw(ZodError, << >>)]

\* the body of the job: the preview parse, then processLine
JobBody(line, pme, mode) ==
  IF ~ParseOk(line) THEN {PreviewFailed} ELSE ProcessLine(line, pme, mode)

\* what the queue and the catch callback see of a finished job
JobOutcomes(line) ==
  {[kind |-> r.kind, error |-> r.error] :
     r \in JobBody(line, processMultiEmail, emailVerifiedMode)}

Failure(recordNumber, clerkUserId, email, errorMessage) ==
  [recordNumber |-> recordNumber, clerkUserId |-> clerkUserId,
   email |-> email, errorMessage |-> errorMessage]

\* lines 244-253: the failure pushed when the preview parse throws
PreviewFailure(u) == Failure(u.recordNumber, Absent, Absent, "ZodError")
\* a false result that pushes a failure under the next record's number
NotFoundFailureMisnumbered(u) ==
  Failure(u.recordNumber + 1, Some(The(u.line.id)),
          Some(SplitPipe(The(u.line.email_addresses))[1]),
          "Could not find or create user")
\* lines 266-276: the failure pushed when processLine returns false
NotFoundFailure(u) ==
  Failure(u.recordNumber, Some(The(u.line.id)),
          Some(SplitPipe(The(u.line.email_addresses))[1]),
          "Could not find or create user")
\* lines 281-295: the failure pushed by the catch callback
ExceptionFailure(u, error) ==
  Failure(u.recordNumber, IF ParseOk(u.line) THEN Some(The(u.line.id)) ELSE Absent,
          Absent, error.type)

\* line 299
RetryAfterSeconds(error) ==
  (IF IsPresent(error.retryAfter) THEN The(error.retryAfter) ELSE DEFAULT_RETRY_AFTER) + 1

\* a catch callback that forgets to add the closure again
ResubmitDrops(q, paused, unit) == q

\* a catch callback that gives the retry the number of the latest admitted record
ResubmitRenumbered(q, paused, unit) ==
  QueueAdd(q, paused, [recordNumber |-> recordCount, line |-> unit.line])

\* a catch callback that retries a record once and gives it up at the next throttle
ResubmitOnlyOnce(q, paused, unit) ==
  IF attempts[unit.recordNumber] >= 2 THEN q ELSE QueueAdd(q, paused, unit)

\* a catch callback that adds the closure twice
ResubmitTwice(q, paused, unit) == QueueAdd(QueueAdd(q, paused, unit), paused, unit)

\* line 306: the catch callback calls enqueueTask() again: queue.add of the same closure
Resubmit(q, paused, unit) == QueueAdd(q, paused, unit)

-----------------------------------------------------------------------------
(* Initial state *)

\* a CSV row without any column
NoRow ==
  [id |-> Absent, primary_email_address |-> Absent, verified_email_addresses |-> Absent,
   unverified_email_addresses |-> Absent, password_digest |-> Absent]

NoReconIn ==
  [line |-> InvalidLine, processMultiEmail |-> FALSE, emailVerifiedMode |-> "never",
   format |-> "json", row |-> NoRow]

EngineStart ==
  /\ fetched = 0
  /\ mainPc = "pull"
  /\ recordCount = 0
  /\ completedCount = 0
  /\ warningCount = 0
  /\ errorCount = 0
  /\ failures = << >>
  /\ stepSuccess = [n \in RecordNumbers |-> 0]
  /\ waiting = << >>
  /\ running = {}
  /\ isPaused = FALSE
  /\ timers = {}
  /\ unhandled = FALSE
  /\ proc = "running"
  /\ exitCode = Absent
  /\ summary = Absent
  /\ pausedSeconds = 0
  /\ waitSeconds = 0
  /\ attempts = [n \in RecordNumbers |-> 0]
  /\ throttledOf = [n \in RecordNumbers |-> 0]

\* no findOrCreateUser call is followed step by step
NoCall ==
  [pc |-> "none", attempt |-> 0, created |-> Absent, existing |-> Absent,
   orphan |-> Absent, out |-> Absent]
RemoteStart ==
  /\ remoteUsers = {}
  /\ foc = NoCall

\* The run reads --email-verified only inside findOrCreateUser, and a job ends
\* in the same ways (true, false, throw) under every mode: the run is explored
\* under the mode that makes every remote call.
RunMode == "always"
\* --process-multi-email at its default (line 183): a two-email record is then
\* skipped, and a single-email record goes through every path of findOrCreateUser
RunProcessMultiEmail == FALSE

\* userExportStream before the first chunk (part_003:259-265)
SourceStart ==
  /\ srcStatus = "open"
  /\ srcDelivered = 0
  /\ srcQueue = << >>
  /\ srcDone = FALSE
  /\ deferredResolve = FALSE
  /\ srcPc = "idle"
  /\ srcYielded = << >>

Init ==
  /\ SourceStart
  /\ file \in Files
  /\ processMultiEmail = RunProcessMultiEmail
  /\ emailVerifiedMode = RunMode
  /\ EngineStart
  /\ RemoteStart
  /\ reconIn = NoReconIn
  /\ reconOut = Absent

-----------------------------------------------------------------------------
(* Turns of the event loop. A callback and the promise continuations it    *)
(* wakes run to completion before the next event is taken: after a queue   *)
(* event resolved the promise main() awaits, or onSizeLessThan returned at *)
(* once, main()'s continuation ("admit", "summary") runs before any other  *)
(* job result, timer or verdict on an unhandled rejection.                 *)

MainReady == mainPc \in {"admit", "summary"}
EventTurn == proc = "running" /\ ~MainReady /\ ~unhandled

\* history: every unit that enters running in this step is one more job started
\* for its record
CountStarts ==
  attempts' = [k \in RecordNumbers |->
                 attempts[k] + Cardinality({u \in running' \ running : u.recordNumber = k})]

-----------------------------------------------------------------------------
(* main(): the for-await loop (part_002:231-313) *)

\* lines 231-232: the source yields the next record; main calls onSizeLessThan
MainPull ==
  /\ proc = "running"
  /\ mainPc = "pull"
  /\ fetched < Len(file)
  /\ fetched' = fetched + 1
  /\ mainPc' = IF SizeLessThan(QueueState(waiting, running)) THEN "admit" ELSE "sizeWait"
  /\ UNCHANGED <<inputVars, countVars, queueVars, timers, unhandled, procVars, summary, reconVars, sourceVars, clockVars, historyVars, remoteVars>>

\* lines 234-312: recordNumber, recordCount++, enqueueTask()
MainAdmit ==
  /\ proc = "running"
  /\ mainPc = "admit"
  /\ recordCount' = recordCount + 1
  /\ LET q == QueueAdd(QueueState(waiting, running), isPaused,
                       Unit(recordCount + 1, file[fetched]))
     IN /\ waiting' = q.waiting
        /\ running' = q.running
  /\ mainPc' = "pull"
  /\ UNCHANGED <<inputVars, fetched, completedCount, warningCount, errorCount, failures,
                 stepSuccess, isPaused, timers, unhandled, procVars, summary, reconVars, sourceVars, clockVars>>
  /\ UNCHANGED throttledOf
  /\ CountStarts
  /\ UNCHANGED remoteVars

\* line 315: the source is exhausted; main calls onIdle
MainSourceEnd ==
  /\ proc = "running"
  /\ mainPc = "pull"
  /\ fetched = Len(file)
  /\ mainPc' = IF running = {} /\ Len(waiting) = 0 THEN "summary" ELSE "idleWait"
  /\ UNCHANGED <<inputVars, fetched, countVars, queueVars, timers, unhandled, procVars,
                 summary, reconVars, sourceVars, clockVars, historyVars, remoteVars>>

SummaryStatus ==
  IF errorCount = 0 THEN "Success" ELSE IF completedCount > 0 THEN "Partial" ELSE "Failed"

\* rows that are put in ascending recordNumber order before they are written
RECURSIVE InsertByNumber(_, _)
InsertByNumber(f, rows) ==
  IF rows = << >> THEN <<f>>
  ELSE IF f.recordNumber < Head(rows).recordNumber THEN <<f>> \o rows
       ELSE <<Head(rows)>> \o InsertByNumber(f, Tail(rows))
RECURSIVE SortedRows(_)
SortedRows(fs) ==
  IF fs = << >> THEN << >> ELSE InsertByNumber(fs[Len(fs)], SortedRows(SubSeq(fs, 1, Len(fs) - 1)))

\* lines 358-371: the rows of the error report: failures.map(...), JSON.stringify(failures)
ReportRows(fs) == [i \in 1..Len(fs) |-> fs[i]]

\* lines 317-377: the summary box and the error report
MainSummary ==
  /\ proc = "running"
  /\ mainPc = "summary"
  /\ summary' = Some([status |-> SummaryStatus, warnings |-> warningCount,
                      errors |-> errorCount, imported |-> completedCount,
                      total |-> recordCount, report |-> ReportRows(failures)])
  /\ mainPc' = "done"
  /\ UNCHANGED <<inputVars, fetched, countVars, queueVars, timers, unhandled, procVars,
                 reconVars, sourceVars, clockVars, historyVars, remoteVars>>

-----------------------------------------------------------------------------
(* A job finishes. p-queue's wrapper settles the promise add() returned    *)
(* and runs its finally: pending--, tryToStartAnother, emit 'next'. When   *)
(* the promise was rejected, the .catch callback of enqueueTask (lines     *)
(* 279-311) runs next, in the same turn.                                   *)

\* p-queue's finally for unit u: the queue after it, and main() after its events
AfterNext(u) == TryToStartAnother(QueueState(waiting, running \ {u}), isPaused)
MainAfterNext(u) ==
  MainAfterEvents(mainPc, EmitsIdle(QueueState(waiting, running \ {u})), TRUE, AfterNext(u))

\* lines 238-278: the job returns: previewFailed, or processLine's true / false
JobReturns(u) ==
  /\ EventTurn
  /\ u \in running
  /\ \E res \in JobOutcomes(u.line) :
       /\ res.kind # "throw"
       /\ completedCount' = IF res.kind = "true" THEN completedCount + 1 ELSE completedCount
       /\ stepSuccess' = IF res.kind = "true"
                         THEN [stepSuccess EXCEPT ![u.recordNumber] = @ + 1]
                         ELSE stepSuccess
       /\ errorCount' = IF res.kind = "true" THEN errorCount ELSE errorCount + 1
       /\ failures' = IF res.kind = "previewFailed" THEN Append(failures, PreviewFailure(u))
                      ELSE IF res.kind = "false" THEN Append(failures, NotFoundFailure(u))
                      ELSE failures
  /\ waiting' = AfterNext(u).waiting
  /\ running' = AfterNext(u).running
  /\ mainPc' = MainAfterNext(u)
  /\ UNCHANGED <<inputVars, fetched, recordCount, warningCount, isPaused, timers, unhandled,
                 procVars, summary, reconVars, sourceVars, clockVars>>
  /\ UNCHANGED throttledOf
  /\ CountStarts
  /\ UNCHANGED remoteVars

\* lines 280-297: the job threw something that is not a rate limit: count, record,
\* rethrow. Nothing handles the promise enqueueTask returns (lines 306, 312).
JobThrows(u) ==
  /\ EventTurn
  /\ u \in running
  /\ \E res \in JobOutcomes(u.line) :
       /\ res.kind = "throw"
       /\ ~IsRateLimit(res.error)
       /\ errorCount' = errorCount + 1
       /\ failures' = Append(failures, ExceptionFailure(u, res.error))
  /\ unhandled' = TRUE
  /\ waiting' = AfterNext(u).waiting
  /\ running' = AfterNext(u).running
  /\ mainPc' = MainAfterNext(u)
  /\ UNCHANGED <<inputVars, fetched, recordCount, completedCount, warningCount, stepSuccess,
                 isPaused, timers, procVars, summary, reconVars, sourceVars, clockVars>>
  /\ UNCHANGED throttledOf
  /\ CountStarts
  /\ UNCHANGED remoteVars

\* lines 299-308: the job threw a rate limit: warningCount++, pause, enqueueTask(), sleep
JobThrottled(u) ==
  /\ EventTurn
  /\ u \in running
  /\ warningCount < MaxThrottles
  /\ \E res \in JobOutcomes(u.line) :
       /\ res.kind = "throw"
       /\ IsRateLimit(res.error)
       /\ timers' = timers \cup {[id |-> warningCount + 1, left |-> RetryAfterSeconds(res.error)]}
       /\ waitSeconds' = waitSeconds + RetryAfterSeconds(res.error)
  /\ warningCount' = warningCount + 1
  /\ isPaused' = TRUE
  /\ LET q == Resubmit(AfterNext(u), TRUE, u)
     IN /\ waiting' = q.waiting
        /\ running' = q.running
  /\ mainPc' = MainAfterNext(u)
  /\ UNCHANGED <<inputVars, fetched, recordCount, completedCount, errorCount, failures,
                 stepSuccess, unhandled, procVars, summary, reconVars, sourceVars,
                 pausedSeconds>>
  /\ throttledOf' = [throttledOf EXCEPT ![u.recordNumber] = @ + 1]
  /\ CountStarts
  /\ UNCHANGED remoteVars

\* lines 308-310: the sleep is over: queue.start()
QueueStart(q, paused) == IF paused THEN ProcessQueue(q, FALSE) ELSE q

\* a handler that resumes the queue only when no other handler is still sleeping
SleepOverWaitsForOthers(t) ==
  /\ EventTurn
  /\ t \in timers
  /\ t.left = 0
  /\ timers' = timers \ {t}
  /\ isPaused' = (isPaused /\ timers # {t})
  /\ LET q == IF timers = {t} THEN QueueStart(QueueState(waiting, running), isPaused)
              ELSE QueueState(waiting, running)
     IN /\ waiting' = q.waiting
        /\ running' = q.running
        /\ mainPc' = MainAfterEvents(mainPc, timers = {t} /\ isPaused /\ EmitsIdle(q), FALSE, q)
  /\ UNCHANGED <<inputVars, fetched, countVars, unhandled, procVars, summary, reconVars,
                 sourceVars, clockVars>>
  /\ UNCHANGED throttledOf
  /\ CountStarts
  /\ UNCHANGED remoteVars

SleepOver(t) ==
  /\ EventTurn
  /\ t \in timers
  /\ t.left = 0
  /\ timers' = timers \ {t}
  /\ isPaused' = FALSE
  /\ LET q == QueueStart(QueueState(waiting, running), isPaused)
     IN /\ waiting' = q.waiting
        /\ running' = q.running
        /\ mainPc' = MainAfterEvents(mainPc, isPaused /\ EmitsIdle(q), FALSE, q)
  /\ UNCHANGED <<inputVars, fetched, countVars, unhandled, procVars, summary, reconVars, sourceVars, clockVars>>
  /\ UNCHANGED throttledOf
  /\ CountStarts
  /\ UNCHANGED remoteVars

\* one second passes; a sleep that is over ends before the clock moves on
Tick ==
  /\ EventTurn
  /\ timers # {}
  /\ \A t \in timers : t.left > 0
  /\ timers' = {[id |-> t.id, left |-> t.left - 1] : t \in timers}
  /\ pausedSeconds' = IF isPaused THEN pausedSeconds + 1 ELSE pausedSeconds
  /\ UNCHANGED <<inputVars, fetched, mainPc, countVars, queueVars, unhandled, procVars,
                 summary, reconVars, sourceVars, waitSeconds, historyVars, remoteVars>>

-----------------------------------------------------------------------------
(* The process (part_002:382-387 and the runtime) *)

\* The runtime's verdict on the unhandled rejection, once the turn that made it
\* is over: it raises it as an uncaught exception, which ends the process with
\* exit code 1 (fatal), or it only warns (--unhandled-rejections=warn, old runtimes).
UnhandledRejection(fatal) ==
  /\ proc = "running"
  /\ unhandled
  /\ ~MainReady
  /\ unhandled' = FALSE
  /\ proc' = IF fatal THEN "exited" ELSE proc
  /\ exitCode' = IF fatal THEN Some(1) ELSE exitCode
  /\ UNCHANGED <<inputVars, fetched, mainPc, countVars, queueVars, timers, summary, reconVars, sourceVars, clockVars, historyVars, remoteVars>>

\* nothing is left to run: no job, no timer, and main() has returned or waits for
\* an event nobody will emit
EventLoopEmpty ==
  /\ mainPc \in {"done", "sizeWait", "idleWait"}
  /\ running = {}
  /\ timers = {}
  /\ ~unhandled

ProcessExit ==
  /\ proc = "running"
  /\ EventLoopEmpty
  /\ proc' = "exited"
  /\ exitCode' = Some(0)
  /\ UNCHANGED <<inputVars, fetched, mainPc, countVars, queueVars, timers, unhandled, summary,
                 reconVars, sourceVars, clockVars, historyVars, remoteVars>>

-----------------------------------------------------------------------------
Next ==
  \/ MainPull
  \/ MainAdmit
  \/ MainSourceEnd
  \/ MainSummary
  \/ \E u \in running : JobReturns(u)
  \/ \E u \in running : JobThrows(u)
  \/ \E u \in running : JobThrottled(u)
  \/ \E t \in timers : SleepOver(t)
  \/ Tick
  \/ UnhandledRejection(TRUE)
  \/ UnhandledRejection(FALSE)
  \/ ProcessExit

Spec == Init /\ [][Next]_vars

\* The event loop runs a callback that is ready, time passes while a sleep is
\* pending, and the runtime gives its verdict on an unhandled rejection.
SpecLive == Init /\ [][Next]_vars /\ WF_vars(Next)

-----------------------------------------------------------------------------
(* The run over the six-record export: the remote service throttles the    *)
(* first attempt of record 5 and nothing else, and fails no call.          *)

InitScenario ==
  /\ SourceStart
  /\ file = ScenarioFile
  /\ processMultiEmail = RunProcessMultiEmail
  /\ emailVerifiedMode = RunMode
  /\ EngineStart
  /\ RemoteStart
  /\ reconIn = NoReconIn
  /\ reconOut = Absent

\* what the service lets a returning job of unit u do: record 5 returns only
\* on its retry, and only the two-email record fails
ScenarioReturn(u) ==
  /\ u.recordNumber = 5 => warningCount = 1
  /\ failures' # failures => u.recordNumber = 2

\* the service throttles record 5 once
ScenarioThrottle(u) == u.recordNumber = 5 /\ warningCount = 0

NextScenario ==
  \/ MainPull
  \/ MainAdmit
  \/ MainSourceEnd
  \/ MainSummary
  \/ \E u \in running : JobReturns(u) /\ ScenarioReturn(u)
  \/ \E u \in running : JobThrottled(u) /\ ScenarioThrottle(u)
  \/ \E t \in timers : SleepOver(t)
  \/ Tick
  \/ ProcessExit

SpecScenario == InitScenario /\ [][NextScenario]_vars

-----------------------------------------------------------------------------
(* userExportStream, the JSON array branch (part_003:259-310): the file    *)
(* stream feeds the JSON parser, whose onValue callback fills a queue; the *)
(* generator yields from the queue and waits on a promise when it is       *)
(* empty. The consumer (the for-await loop of main) pulls when it pleases. *)

\* Records whose unsafe_metadata holds nested values: an array of two roles,
\* a member named "7", a member named "p"
Member(key, elements) == [key |-> key, elements |-> elements]
RolesLine ==
  [id |-> Some("user_3"), email_addresses |-> Some(<<"A">>),
   password_digest |-> Absent, primary_email_verified |-> Absent,
   unsafe_metadata |-> <<Member(<<"r">>, <<"x", "y">>)>>]
NumericKeyLine ==
  [id |-> Some("user_4"), email_addresses |-> Some(<<"A">>),
   password_digest |-> Absent, primary_email_verified |-> Absent,
   unsafe_metadata |-> <<Member(<<"7">>, << >>)>>]
PlainKeyLine ==
  [id |-> Some("user_5"), email_addresses |-> Some(<<"A">>),
   password_digest |-> Absent, primary_email_verified |-> Absent,
   unsafe_metadata |-> <<Member(<<"p">>, << >>)>>]
MetadataOf(record) ==
  IF "unsafe_metadata" \in DOMAIN record THEN record.unsafe_metadata ELSE << >>

\* String(n) for an array index
DigitChars == <<"0", "1", "2", "3", "4", "5", "6", "7", "8", "9">>
Digits == {DigitChars[i] : i \in 1..Len(DigitChars)}
IndexText(n) == <<DigitChars[n + 1]>>

\* a value that is not a record: a string, an array or an object inside one
Nested(what) == [nested |-> what]

\* What the parser hands to onValue: every value of the document when it is
\* complete, the inner ones first, each with its key in its parent: an array
\* element under its index, an object member under its name, the root without.
Emitted(key, value, depth) == [key |-> key, value |-> value, depth |-> depth]

\* a member of unsafe_metadata: the elements of its array, then the member
MemberValues(m) ==
  [j \in 1..Len(m.elements) |-> Emitted(Some(IndexText(j - 1)), Nested(m.elements[j]), 4)]
    \o <<Emitted(Some(m.key), Nested("member"), 3)>>
RECURSIVE MetadataValues(_)
MetadataValues(members) ==
  IF members = << >> THEN << >>
  ELSE MemberValues(Head(members)) \o MetadataValues(Tail(members))

\* the members of a record: id stands for the scalar ones
PropertyValue(record) == Emitted(Some(<<"i", "d">>), Nested("id"), 2)
PropertyValues(record) ==
  <<PropertyValue(record)>>
    \o (IF MetadataOf(record) = << >> THEN << >>
        ELSE MetadataValues(MetadataOf(record))
               \o <<Emitted(Some(<<"u">>), Nested("unsafe_metadata"), 2)>>)
\* element number i of the top-level array
ElementValue(record, i) == Emitted(Some(IndexText(i - 1)), record, 1)
RootValue == Emitted(Absent, Nested("root"), 0)
RECURSIVE ElementValues(_)
ElementValues(records) ==
  IF records = << >> THEN << >>
  ELSE LET n == Len(records) IN
       ElementValues(SubSeq(records, 1, n - 1))
         \o PropertyValues(records[n]) \o <<ElementValue(records[n], n)>>
ParserValues(records) == ElementValues(records) \o <<RootValue>>

\* parseInt(text, 10) is NaN: after leading blanks and one sign no digit follows
ParseIntIsNaN(text) ==
  LET t == TrimStart(text)
      u == IF t # << >> /\ Head(t) \in {"+", "-"} THEN Tail(t) ELSE t
  IN u = << >> \/ Head(u) \notin Digits

\* line 277: !Number.isNaN(parseInt(key, 10)); a key that is undefined reads "undefined"
IsIndexKey(v) == IsPresent(v.key) /\ ~ParseIntIsNaN(The(v.key))

\* the values the parser delivered under an index, in delivery order
RECURSIVE IndexedValues(_)
IndexedValues(values) ==
  IF values = << >> THEN << >>
  ELSE (IF IsIndexKey(Head(values)) THEN <<Head(values).value>> ELSE << >>)
         \o IndexedValues(Tail(values))

\* a loop that looks at done before it looks at the queue
SourceLoopDoneFirst(q, isDone) ==
  IF isDone THEN "break" ELSE IF Len(q) > 0 THEN "yield" ELSE "await"

\* lines 298-309: one round of the generator's loop
SourceLoop(q, isDone) ==
  IF Len(q) > 0 THEN "yield" ELSE IF isDone THEN "break" ELSE "await"

\* the generator runs until it yields, ends or waits
RunGenerator ==
  LET step == SourceLoop(srcQueue, srcDone)
  IN /\ srcYielded' = IF step = "yield" THEN Append(srcYielded, Head(srcQueue)) ELSE srcYielded
     /\ srcQueue' = IF step = "yield" THEN Tail(srcQueue) ELSE srcQueue
     /\ deferredResolve' = (step = "await")
     /\ srcPc' = IF step = "yield" THEN "idle" ELSE IF step = "break" THEN "ended" ELSE "await"

\* lines 270-273, 279-282, 292-295: if (deferredResolve) { deferredResolve(); ... = null }
WakeWaiter ==
  /\ deferredResolve' = FALSE
  /\ srcPc' = IF deferredResolve THEN "woken" ELSE srcPc

\* the consumer asks for the next value
SourcePull ==
  /\ proc = "running"
  /\ srcPc = "idle"
  /\ RunGenerator
  /\ UNCHANGED <<engineVars, reconVars, srcStatus, srcDelivered, srcDone>>

\* the promise of line 306 was resolved: the loop goes round again
SourceResume ==
  /\ proc = "running"
  /\ srcPc = "woken"
  /\ RunGenerator
  /\ UNCHANGED <<engineVars, reconVars, srcStatus, srcDelivered, srcDone>>

\* lines 276-289: a chunk completes a value and the parser calls onValue
SourceOnValue ==
  /\ proc = "running"
  /\ srcStatus = "open"
  /\ srcDelivered < Len(ParserValues(file))
  /\ srcDelivered' = srcDelivered + 1
  /\ LET v == ParserValues(file)[srcDelivered + 1]
     IN IF IsIndexKey(v)
        THEN srcQueue' = Append(srcQueue, v.value) /\ WakeWaiter
        ELSE UNCHANGED <<srcQueue, deferredResolve, srcPc>>
  /\ UNCHANGED <<engineVars, reconVars, srcStatus, srcDone, srcYielded>>

\* lines 290-296: the stream ends
SourceOnEnd ==
  /\ proc = "running"
  /\ srcStatus = "open"
  /\ srcDelivered = Len(ParserValues(file))
  /\ srcStatus' = "ended"
  /\ srcDone' = TRUE
  /\ WakeWaiter
  /\ UNCHANGED <<engineVars, reconVars, srcDelivered, srcQueue, srcYielded>>

\* lines 267-274: the file cannot be read (any longer): fileStream emits
\* 'error', it is handed to passThrough, whose handler wakes the waiter
SourceOnError ==
  /\ proc = "running"
  /\ srcStatus = "open"
  /\ srcStatus' = "failed"
  /\ WakeWaiter
  /\ UNCHANGED <<engineVars, reconVars, srcDelivered, srcQueue, srcDone, srcYielded>>

\* line 288: the chunk is not JSON: jsonParser.write throws inside the 'data'
\* listener, an uncaught exception that ends the process
SourceDecodeError ==
  /\ proc = "running"
  /\ srcStatus = "open"
  /\ srcDelivered < Len(ParserValues(file))
  /\ srcStatus' = "failed"
  /\ proc' = "exited"
  /\ exitCode' = Some(1)
  /\ UNCHANGED <<inputVars, fetched, mainPc, countVars, queueVars, timers, unhandled, summary,
                 reconVars, srcDelivered, srcQueue, srcDone, deferredResolve, srcPc, srcYielded,
                 clockVars, historyVars, remoteVars>>

\* the generator waits on a promise nothing will resolve, and nothing else is
\* left to run: the process ends as after a normal return
SourceStarved ==
  /\ proc = "running"
  /\ srcPc = "await"
  /\ srcStatus = "failed"
  /\ proc' = "exited"
  /\ exitCode' = Some(0)
  /\ UNCHANGED <<inputVars, fetched, mainPc, countVars, queueVars, timers, unhandled, summary,
                 reconVars, sourceVars, clockVars, historyVars, remoteVars>>

NextSource ==
  \/ SourcePull
  \/ SourceResume
  \/ SourceOnValue
  \/ SourceOnEnd
  \/ SourceOnError
  \/ SourceDecodeError
  \/ SourceStarved

SpecSource == Init /\ [][NextSource]_vars

\* the source over exports whose records carry unsafe_metadata
MaxNestedRecords == 2
NestedPool == {SingleLine, RolesLine, NumericKeyLine, PlainKeyLine}
NestedFiles == UNION {[1..n -> NestedPool] : n \in 1..MaxNestedRecords}

InitNested ==
  /\ SourceStart
  /\ file \in NestedFiles
  /\ processMultiEmail = RunProcessMultiEmail
  /\ emailVerifiedMode = RunMode
  /\ EngineStart
  /\ RemoteStart
  /\ reconIn = NoReconIn
  /\ reconOut = Absent

SpecNested == InitNested /\ [][NextSource]_vars

-----------------------------------------------------------------------------
(* ndjsonStream (src/ndjson-stream.ts:5-54), the source of the first       *)
(* importer (part_001:116): the same parser and queue, no 'end' listener   *)
(* and no done flag; the loop ends when it finds the queue empty and       *)
(* deferredResolve null. deferredResolve first holds the resolver of        *)
(* streamComplete. A chunk is parsed in one synchronous write: its values  *)
(* reach onValue before the generator can run again.                       *)

\* lines 41-53: one round of the generator's loop
NdjsonLoop(q, resolver) ==
  IF Len(q) > 0 THEN "yield" ELSE IF ~resolver THEN "break" ELSE "await"

\* the generator runs until it yields, ends or waits
RunNdjsonGenerator ==
  LET step == NdjsonLoop(srcQueue, deferredResolve)
  IN /\ srcYielded' = IF step = "yield" THEN Append(srcYielded, Head(srcQueue)) ELSE srcYielded
     /\ srcQueue' = IF step = "yield" THEN Tail(srcQueue) ELSE srcQueue
     /\ deferredResolve' = IF step = "await" THEN TRUE ELSE deferredResolve
     /\ srcPc' = IF step = "yield" THEN "idle" ELSE IF step = "break" THEN "ended" ELSE "await"

\* lines 6-20: the generator body starts at the first pull
InitNdjson ==
  /\ srcStatus = "unopened"
  /\ srcDelivered = 0
  /\ srcQueue = << >>
  /\ srcDone = FALSE
  /\ deferredResolve = TRUE
  /\ srcPc = "idle"
  /\ srcYielded = << >>
  /\ file \in Files
  /\ processMultiEmail = RunProcessMultiEmail
  /\ emailVerifiedMode = RunMode
  /\ EngineStart
  /\ RemoteStart
  /\ reconIn = NoReconIn
  /\ reconOut = Absent

\* the consumer asks for the next value (part_001:116)
NdjsonPull ==
  /\ proc = "running"
  /\ srcPc = "idle"
  /\ srcStatus' = IF srcStatus = "unopened" THEN "open" ELSE srcStatus
  /\ RunNdjsonGenerator
  /\ UNCHANGED <<engineVars, reconVars, srcDelivered, srcDone>>

\* the promise of line 49 was resolved: the loop goes round again
NdjsonResume ==
  /\ proc = "running"
  /\ srcPc = "woken"
  /\ RunNdjsonGenerator
  /\ UNCHANGED <<engineVars, reconVars, srcStatus, srcDelivered, srcDone>>

\* lines 23-38: a chunk of the file is written to the parser, which calls
\* onValue for each of the k values the chunk completes
NdjsonOnData ==
  /\ proc = "running"
  /\ srcStatus = "open"
  /\ \E k \in 1..(Len(ParserValues(file)) - srcDelivered) :
       LET pushed == IndexedValues(SubSeq(ParserValues(file), srcDelivered + 1,
                                          srcDelivered + k))
       IN /\ srcDelivered' = srcDelivered + k
          /\ srcQueue' = srcQueue \o pushed
          /\ IF pushed # << >> THEN WakeWaiter ELSE UNCHANGED <<deferredResolve, srcPc>>
  /\ UNCHANGED <<engineVars, reconVars, srcStatus, srcDone, srcYielded>>

\* the file is read to its end: nothing listens
NdjsonOnEnd ==
  /\ proc = "running"
  /\ srcStatus = "open"
  /\ srcDelivered = Len(ParserValues(file))
  /\ srcStatus' = "ended"
  /\ UNCHANGED <<engineVars, reconVars, srcDelivered, srcQueue, srcDone, deferredResolve,
                 srcPc, srcYielded>>

\* the generator waits on a promise nothing will resolve, and nothing else is
\* left to run: the process ends as after a normal return
NdjsonStarved ==
  /\ proc = "running"
  /\ srcPc = "await"
  /\ srcStatus = "ended"
  /\ proc' = "exited"
  /\ exitCode' = Some(0)
  /\ UNCHANGED <<inputVars, fetched, mainPc, countVars, queueVars, timers, unhandled, summary,
                 reconVars, sourceVars, clockVars, historyVars, remoteVars>>

NextNdjson ==
  \/ NdjsonPull
  \/ NdjsonResume
  \/ NdjsonOnData
  \/ NdjsonOnEnd
  \/ NdjsonStarved

SpecNdjson == InitNdjson /\ [][NextNdjson]_vars

-----------------------------------------------------------------------------
(* findOrCreateUser against a remote service that keeps its users           *)
(* (part_002:40-135), call by call, with the retry after a throttle         *)
(* (part_002:299-310). The service is taken to keep one user per email:     *)
(* it stores the email in lower case, rejects a create for an email it      *)
(* has, and lists the users whose stored email is the one asked for.        *)

RemoteUser(id, email) == [id |-> id, email |-> email]
WosExistingId == "wos_existing"

\* the service: the users stored under an email, and the users listUsers returns
StoredEmail(email) == ToLowerCase(email)
EmailTaken(email) == \E u \in remoteUsers : u.email = StoredEmail(email)
ListUsers(email) == {u \in remoteUsers : u.email = email}

\* a lookup that asks for the email as the export writes it
LookupEmailAsWritten(email) == email

\* lines 93-95: listUsers({ email: email.toLowerCase() })
LookupEmail(email) == ToLowerCase(email)

FocUser == ClerkExportedUserParse(reconIn.line)
FocEmail == SplitPipe(FocUser.email_addresses)[1]
FocVerifies == ShouldMarkEmailVerified(FocUser, reconIn.emailVerifiedMode)

\* the service may answer with a rate limit while throttles are left
MayThrottle == foc.attempt <= MaxThrottles

runVars ==
  <<inputVars, fetched, mainPc, countVars, queueVars, timers, unhandled, procVars, summary,
    clockVars, historyVars, reconVars, sourceVars>>

InitRemote ==
  /\ SourceStart
  /\ file = << >>
  /\ processMultiEmail = RunProcessMultiEmail
  /\ emailVerifiedMode = RunMode
  /\ EngineStart
  /\ reconIn \in {[line |-> l, processMultiEmail |-> FALSE, emailVerifiedMode |-> mode,
                   format |-> "json", row |-> NoRow] :
                    l \in {SingleLine, [SingleLine EXCEPT !.password_digest = Absent]},
                    mode \in EmailVerifiedModes}
  /\ reconOut = Absent
  /\ remoteUsers \in {{}, {RemoteUser(WosExistingId, StoredEmail(FocEmail))}}
  /\ foc = [NoCall EXCEPT !.pc = "create", !.attempt = 1]

\* lines 66-71: createUser. The service rejects the email it has, and else
\* creates the user, fails, or throttles.
FocCreate ==
  /\ foc.pc = "create"
  /\ \/ /\ ~EmailTaken(FocEmail)
        /\ remoteUsers' = remoteUsers \cup {RemoteUser(WosCreatedId, StoredEmail(FocEmail))}
        /\ foc' = [foc EXCEPT !.created = Some(WosCreatedId),
                              !.pc = IF FocVerifies THEN "verifyCreated" ELSE "returned",
                              !.out = IF FocVerifies THEN Absent ELSE Some(WosCreatedId)]
     \/ /\ foc' = [foc EXCEPT !.pc = "lookup"]
        /\ UNCHANGED remoteUsers
     \/ /\ MayThrottle
        /\ foc' = [foc EXCEPT !.pc = "throttled"]
        /\ UNCHANGED remoteUsers
  /\ UNCHANGED runVars

\* lines 72-87: updateUser(emailVerified) on the created user; a rate limit is
\* thrown on (lines 79, 89-91), another failure only warns
FocVerifyCreated ==
  /\ foc.pc = "verifyCreated"
  /\ \/ foc' = [foc EXCEPT !.pc = "returned", !.out = foc.created]
     \/ /\ MayThrottle
        /\ foc' = [foc EXCEPT !.pc = "throttled", !.orphan = foc.created]
  /\ UNCHANGED <<runVars, remoteUsers>>

\* lines 93-97: listUsers by lowercased email; exactly one match is taken
FocLookup ==
  /\ foc.pc = "lookup"
  /\ \/ LET data == ListUsers(LookupEmail(FocEmail))
        IN IF Cardinality(data) = 1
           THEN foc' = [foc EXCEPT !.existing = Some((CHOOSE u \in data : TRUE).id),
                                   !.pc = IF Truthy(FocUser.password_digest) THEN "password"
                                          ELSE IF FocVerifies THEN "verifyExisting"
                                          ELSE "returned",
                                   !.out = IF Truthy(FocUser.password_digest) \/ FocVerifies
                                           THEN Absent
                                           ELSE Some((CHOOSE u \in data : TRUE).id)]
           ELSE foc' = [foc EXCEPT !.pc = "returned", !.out = Absent]
     \/ foc' = [foc EXCEPT !.pc = "thrown"]
     \/ /\ MayThrottle
        /\ foc' = [foc EXCEPT !.pc = "throttled"]
  /\ UNCHANGED <<runVars, remoteUsers>>

\* lines 98-116: updateUser(passwordHash) on the matched user
FocPassword ==
  /\ foc.pc = "password"
  /\ \/ foc' = [foc EXCEPT !.pc = IF FocVerifies THEN "verifyExisting" ELSE "returned",
                           !.out = IF FocVerifies THEN Absent ELSE foc.existing]
     \/ /\ MayThrottle
        /\ foc' = [foc EXCEPT !.pc = "throttled"]
  /\ UNCHANGED <<runVars, remoteUsers>>

\* lines 117-132: updateUser(emailVerified) on the matched user
FocVerifyExisting ==
  /\ foc.pc = "verifyExisting"
  /\ \/ foc' = [foc EXCEPT !.pc = "returned", !.out = foc.existing]
     \/ /\ MayThrottle
        /\ foc' = [foc EXCEPT !.pc = "throttled"]
  /\ UNCHANGED <<runVars, remoteUsers>>

\* part_002:299-310: the throttled job is added again and runs after the sleep
FocRetry ==
  /\ foc.pc = "throttled"
  /\ foc' = [foc EXCEPT !.pc = "create", !.attempt = @ + 1, !.created = Absent,
                        !.existing = Absent]
  /\ UNCHANGED <<runVars, remoteUsers>>

NextRemote ==
  \/ FocCreate
  \/ FocVerifyCreated
  \/ FocLookup
  \/ FocPassword
  \/ FocVerifyExisting
  \/ FocRetry

SpecRemote == InitRemote /\ [][NextRemote]_vars

-----------------------------------------------------------------------------
(* processLine on one record: every record of a small alphabet, both       *)
(* values of --process-multi-email, every --email-verified mode, every     *)
(* answer of the remote service.                                           *)

\* longest email_addresses string considered
MaxEmailLen == 3

EmailAlphabet == {"A", "b", "|"}
EmailStrings == UNION {[1..n -> EmailAlphabet] : n \in 0..MaxEmailLen}

ReconLines ==
  [id : {Absent, Some("user_1")},
   email_addresses : {Absent} \cup {Some(e) : e \in EmailStrings},
   password_digest : {Absent, Some(""), Some("$2b")},
   primary_email_verified : {Absent, Some(TRUE)}]

\* an element of a JSON export
ReconInputs ==
  [line : ReconLines, processMultiEmail : BOOLEAN, emailVerifiedMode : EmailVerifiedModes,
   format : {"json"}, row : {NoRow}]

\* longest email column of a CSV row considered
MaxCsvLen == 3

\* csv-parse trims every field (trim: true, line 245)
CsvAlphabet == {"A", "a", ",", " "}
CsvFields ==
  {f \in UNION {[1..n -> CsvAlphabet] : n \in 0..MaxCsvLen} : Trim(f) = f}
CsvPrimaries == {f \in CsvFields : Len(f) < MaxCsvLen}

CsvRows ==
  [id : {Absent, Some("user_1")},
   primary_email_address : {Absent} \cup {Some(f) : f \in CsvPrimaries},
   verified_email_addresses : {Absent} \cup {Some(f) : f \in CsvFields},
   unverified_email_addresses : {Absent, Some(<<"b">>)},
   password_digest : {Some(""), Some("$2b")}]

\* a row of a CSV export, mapped as userExportStream yields it (line 253)
CsvInputs ==
  {[line |-> MapCsvRowToUser(row), processMultiEmail |-> pme, emailVerifiedMode |-> mode,
    format |-> "csv", row |-> row] :
     row \in CsvRows, pme \in BOOLEAN, mode \in EmailVerifiedModes}

\* The CSV branch of userExportStream on one row (part_003:239-256): the parser
\* hands over the row, the generator yields the mapped record, the file ends.
InitCsv ==
  /\ SourceStart
  /\ file = << >>
  /\ processMultiEmail = RunProcessMultiEmail
  /\ emailVerifiedMode = RunMode
  /\ EngineStart
  /\ RemoteStart
  /\ reconIn \in {[line |-> InvalidLine, processMultiEmail |-> FALSE,
                    emailVerifiedMode |-> "never", format |-> "csv", row |-> row] :
                     row \in CsvRows}
  /\ reconOut = Absent

\* line 253: yield mapCsvRowToUser(record)
CsvYield ==
  /\ srcStatus = "open"
  /\ srcYielded = << >>
  /\ srcYielded' = <<MapCsvRowToUser(reconIn.row)>>
  /\ UNCHANGED <<engineVars, reconVars, srcStatus, srcDelivered, srcQueue, srcDone,
                 deferredResolve, srcPc>>

\* lines 251-255: the parser has no further row
CsvEnd ==
  /\ srcStatus = "open"
  /\ srcYielded # << >>
  /\ srcStatus' = "ended"
  /\ srcPc' = "ended"
  /\ UNCHANGED <<engineVars, reconVars, srcDelivered, srcQueue, srcDone, deferredResolve,
                 srcYielded>>

NextCsv ==
  \/ CsvYield
  \/ CsvEnd

SpecCsv == InitCsv /\ [][NextCsv]_vars

InitReconcile ==
  /\ SourceStart
  /\ file = << >>
  /\ processMultiEmail = RunProcessMultiEmail
  /\ emailVerifiedMode = RunMode
  /\ EngineStart
  /\ RemoteStart
  /\ reconIn \in ReconInputs \cup CsvInputs
  /\ reconOut = Absent

Reconcile ==
  /\ reconOut = Absent
  /\ \E r \in ProcessLine(reconIn.line, reconIn.processMultiEmail, reconIn.emailVerifiedMode) :
       reconOut' = Some(r)
  /\ UNCHANGED <<engineVars, reconIn, sourceVars>>

\* part_002:262-277: the job that called processLine counts what it returned
ReconJobReturns ==
  /\ reconOut # Absent
  /\ The(reconOut).kind # "throw"
  /\ completedCount + errorCount = 0
  /\ LET u == Unit(1, reconIn.line)
         ok == The(reconOut).kind = "true"
     IN /\ completedCount' = IF ok THEN completedCount + 1 ELSE completedCount
        /\ stepSuccess' = IF ok THEN [stepSuccess EXCEPT ![u.recordNumber] = @ + 1]
                          ELSE stepSuccess
        /\ errorCount' = IF ok THEN errorCount ELSE errorCount + 1
        /\ failures' = IF ok THEN failures ELSE Append(failures, NotFoundFailure(u))
  /\ UNCHANGED <<inputVars, fetched, mainPc, recordCount, warningCount, queueVars, timers,
                 unhandled, procVars, summary, reconVars, sourceVars, clockVars, historyVars, remoteVars>>

NextReconcile ==
  \/ Reconcile
  \/ ReconJobReturns

SpecReconcile == InitReconcile /\ [][NextReconcile]_vars

-----------------------------------------------------------------------------
(* Properties of processLine / findOrCreateUser (SpecReconcile) *)

ReconDone == reconOut # Absent
ReconCalls == The(reconOut).workOsUser.calls

\* the email_addresses string of the record names more than one address
RECURSIVE CountPipes(_)
CountPipes(s) ==
  IF s = << >> THEN 0 ELSE (IF Head(s) = "|" THEN 1 ELSE 0) + CountPipes(Tail(s))
HasSeveralEmails(line) ==
  IsPresent(line.email_addresses) /\ CountPipes(The(line.email_addresses)) >= 1

\* the primary email of the record: what stands before the first "|"
RECURSIVE BeforePipe(_)
BeforePipe(s) ==
  IF s = << >> \/ Head(s) = "|" THEN << >> ELSE <<Head(s)>> \o BeforePipe(Tail(s))

\* C7: a rate-limit answer to any remote call (create, verification of the
\* created user, lookup, password update, verification of the existing user)
\* ends the reconciliation at once: no further call is made, no lookup
\* fallback runs, and what the caller gets is the throw of that very
\* exception, its retry-after untouched.
C7_RateLimitPropagates ==
  ReconDone =>
    \A i \in 1..Len(ReconCalls) :
      ReconCalls[i].answer.status = "ratelimit" =>
        /\ i = Len(ReconCalls)
        /\ The(reconOut).kind = "throw"
        /\ The(reconOut).error = RateLimitExceededException(ReconCalls[i].answer.retryAfter)

\* the user is created and the verification that follows is throttled
C7_WitnessVerifyCreatedThrottled ==
  /\ ReconDone
  /\ Len(ReconCalls) = 2
  /\ ReconCalls[1].op = "createUser"
  /\ ReconCalls[1].answer.status = "ok"
  /\ ReconCalls[2].op = "updateUser"
  /\ ReconCalls[2].answer = Answer("ratelimit", Some(0))
  /\ The(reconOut).kind = "throw"

\* C8: with several addresses on the record and processMultiEmail false the
\* reconciliation makes no remote call at all.
C8_SkipMakesNoRemoteCall ==
  (ReconDone /\ HasSeveralEmails(reconIn.line) /\ ~reconIn.processMultiEmail)
    => ReconCalls = << >>

\* a well-formed two-address record with a password digest, verification on
C8_WitnessSkipped ==
  /\ ReconDone
  /\ ParseOk(reconIn.line)
  /\ The(reconIn.line.email_addresses) = <<"A", "|", "b">>
  /\ Truthy(reconIn.line.password_digest)
  /\ reconIn.emailVerifiedMode = "always"
  /\ ~reconIn.processMultiEmail
  /\ The(reconOut).kind = "false"

\* the create attempt failed with something that is not a rate limit
CreateFailed ==
  /\ ReconDone
  /\ Len(ReconCalls) >= 1
  /\ ReconCalls[1].op = "createUser"
  /\ ReconCalls[1].answer.status = "error"

NoCallThrottled == \A i \in 1..Len(ReconCalls) : ReconCalls[i].answer.status # "ratelimit"

\* C10: after a create failure that is not a rate limit the second call is
\* listUsers with the lowercased primary email. Zero or several matches: the
\* result is false (Failed) and nothing follows the lookup. Exactly one match
\* and no throttled call: the result is true (Imported) with the id of the
\* match; every later call is an updateUser on that id; with a password
\* digest the first of them sets the password hash, and the verification
\* comes last.
C10_LookupFallback ==
  CreateFailed =>
    /\ Len(ReconCalls) >= 2
    /\ ReconCalls[2].op = "listUsers"
    /\ ReconCalls[2].email = ToLowerCase(BeforePipe(The(reconIn.line.email_addresses)))
    /\ LET look == ReconCalls[2]
           digest == reconIn.line.password_digest
       IN /\ (look.answer.status = "ok" /\ Len(look.data) # 1) =>
               /\ The(reconOut).kind = "false"
               /\ Len(ReconCalls) = 2
          /\ (look.answer.status = "ok" /\ Len(look.data) = 1 /\ NoCallThrottled) =>
               /\ The(reconOut).kind = "true"
               /\ The(reconOut).workOsUser.id = look.data[1]
               /\ \A i \in 3..Len(ReconCalls) :
                    /\ ReconCalls[i].op = "updateUser"
                    /\ ReconCalls[i].userId = look.data[1]
               /\ IF Truthy(digest)
                  THEN /\ Len(ReconCalls) >= 3
                       /\ ReconCalls[3].passwordHash = digest
                       /\ ~ReconCalls[3].emailVerified
                       /\ \A i \in 4..Len(ReconCalls) : ReconCalls[i].emailVerified
                       /\ Len(ReconCalls) <= 4
                  ELSE /\ \A i \in 3..Len(ReconCalls) : ReconCalls[i].emailVerified
                       /\ Len(ReconCalls) <= 3

\* create fails, the lookup by "a" finds one user, password set, then verified
C10_WitnessRecovered ==
  /\ CreateFailed
  /\ Len(ReconCalls) = 4
  /\ ReconCalls[1].email = <<"A">>
  /\ ReconCalls[2].email = <<"a">>
  /\ ReconCalls[2].data = <<"wos_existing">>
  /\ ReconCalls[3].passwordHash = Some("$2b")
  /\ ReconCalls[4].emailVerified
  /\ The(reconOut).kind = "true"
  /\ The(reconOut).workOsUser.id = "wos_existing"

-----------------------------------------------------------------------------
(* Properties of the import run (Spec) *)

\* the terminal outcomes record k has so far: "Imported record #k" lines and
\* entries of the failures array
FailureEntries(k) == {i \in 1..Len(failures) : failures[i].recordNumber = k}
Outcomes(k) == stepSuccess[k] + Cardinality(FailureEntries(k))

InQueue(k) == \E i \in 1..Len(waiting) : waiting[i].recordNumber = k
InFlight(k) == \E u \in running : u.recordNumber = k
\* record k was admitted and no unit of work for it is queued or running
Finished(k) == k \in 1..recordCount /\ ~InQueue(k) /\ ~InFlight(k)

\* every record of the file was admitted and the queue has nothing left
AllSettled ==
  /\ recordCount = Len(file)
  /\ Len(waiting) = 0
  /\ running = {}

\* the admitted records the multi-email guard skips
IsSkipped(k) == HasSeveralEmails(file[k]) /\ ParseOk(file[k]) /\ ~processMultiEmail
SkippedRecords == {k \in 1..recordCount : IsSkipped(k)}

\* C1 as the claim states it: the skipped records are a count of their own
\* beside imported and errors, and the three add up to the total.
C1_SkippedCountedApart ==
  AllSettled =>
    /\ recordCount = completedCount + Cardinality(SkippedRecords) + errorCount
    /\ \A k \in 1..recordCount : Outcomes(k) = 1

\* C1: once every record is admitted and the queue is empty, the total is
\* imported + errors, the skipped records being among the errors, and every
\* recordNumber has exactly one terminal outcome, retries included.
C1_CountsAddUp ==
  AllSettled =>
    /\ recordCount = completedCount + errorCount
    /\ errorCount = Len(failures)
    /\ Cardinality(SkippedRecords) <= errorCount
    /\ \A k \in 1..recordCount : Outcomes(k) = 1

\* three records, two throttles, an import, a skip and a third failure, all settled
C1_WitnessMixedRun ==
  /\ AllSettled
  /\ recordCount = 3
  /\ warningCount = 2
  /\ completedCount = 1
  /\ Cardinality(SkippedRecords) = 1
  /\ errorCount = 2

\* C2: the queue never runs more jobs than its concurrency ceiling.
C2_ConcurrencyCeiling == Cardinality(running) <= MAX_CONCURRENT_USER_IMPORTS

\* the ceiling is reached after a throttle while a further unit waits
C2_WitnessCeilingReached ==
  /\ Cardinality(running) = MAX_CONCURRENT_USER_IMPORTS
  /\ Len(waiting) >= 1
  /\ warningCount >= 1
  /\ ~isPaused

\* C3: main() is past the summary only when every admitted record has its
\* terminal outcome and no unit of work is queued or running.
C3_DoneAfterAllOutcomes ==
  mainPc = "done" =>
    /\ Len(waiting) = 0
    /\ running = {}
    /\ \A k \in 1..recordCount : Outcomes(k) = 1

\* C4: the step that handles a throttle of unit u leaves exactly one unit for
\* u's recordNumber in the queue, u itself (same recordNumber, same record),
\* none running, and changes neither the imported count, the error count,
\* the failure list nor the success lines.
C4_ThrottleResubmitsOnce ==
  [][\A u \in running :
       (warningCount' = warningCount + 1 /\ u \notin running') =>
         /\ Cardinality({i \in 1..Len(waiting') :
                           waiting'[i].recordNumber = u.recordNumber}) = 1
         /\ \E i \in 1..Len(waiting') : waiting'[i] = u
         /\ u.line = file[u.recordNumber]
         /\ \A v \in running' : v.recordNumber # u.recordNumber
         /\ completedCount' = completedCount
         /\ errorCount' = errorCount
         /\ failures' = failures
         /\ stepSuccess' = stepSuccess]_vars

\* the first throttle was handled: the unit is back in the queue, nothing counted
C4_WitnessResubmitted ==
  /\ warningCount = 1
  /\ isPaused
  /\ \E i \in 1..Len(waiting) :
       /\ waiting[i].line = SingleLine
       /\ Outcomes(waiting[i].recordNumber) = 0
  /\ completedCount = 0
  /\ errorCount = 0

\* C5: no unit of work starts while the sleep of a throttle handler is still
\* running, however many handlers sleep at once.
C5_NoStartWhileSleeping ==
  [][running' \subseteq running \/ \A t \in timers : t.left = 0]_vars

\* the process has exited after a job threw something that is not a rate limit
ExitedAfterException ==
  /\ proc = "exited"
  /\ \E i \in 1..Len(failures) : failures[i].errorMessage = "Error"

\* C6: a job that throws something other than a rate limit is one Failed
\* outcome of its record and nothing more: every record is still admitted and
\* settled, the summary is printed and the exit code is 0.
C6_ExceptionIsolated ==
  ExitedAfterException =>
    /\ \A i \in 1..Len(failures) :
         failures[i].errorMessage = "Error" => Outcomes(failures[i].recordNumber) = 1
    /\ AllSettled
    /\ summary # Absent
    /\ exitCode = Some(0)

\* C9 as the claim states it: a skipped record is not among the failures.
C9_SkippedNotAnError ==
  \A k \in 1..recordCount :
    (Finished(k) /\ IsSkipped(k)) => FailureEntries(k) = {}

\* C9: a record the multi-email guard skips ends as one entry of the failures
\* array, "Could not find or create user", counted in errorCount, and never
\* as an import.
C9_SkippedIsRecordedAsFailure ==
  /\ errorCount = Len(failures)
  /\ \A k \in 1..recordCount :
       (Finished(k) /\ IsSkipped(k)) =>
         /\ stepSuccess[k] = 0
         /\ Cardinality(FailureEntries(k)) = 1
         /\ \A i \in FailureEntries(k) :
              failures[i].errorMessage = "Could not find or create user"

\* a skipped record has finished next to an imported one
C9_WitnessSkippedFinished ==
  /\ \E k \in 1..recordCount : Finished(k) /\ IsSkipped(k)
  /\ completedCount = 1
  /\ errorCount = 1

-----------------------------------------------------------------------------
(* Properties of the secondary remote steps (SpecReconcile) *)

\* a secondary step (a verification, a password update) failed, not by a rate limit
SecondaryStepFailed ==
  /\ ReconDone
  /\ \E i \in 2..Len(ReconCalls) :
       ReconCalls[i].op = "updateUser" /\ ReconCalls[i].answer.status = "error"

\* C11: when a verification or password update fails with something that is
\* not a rate limit, and no call is throttled, processLine still returns true
\* for the user the update was meant for, and the job counts one import, no
\* error and no failure entry.
C11_SoftFailureKeepsImport ==
  (SecondaryStepFailed /\ NoCallThrottled) =>
    /\ The(reconOut).kind = "true"
    /\ \A i \in 2..Len(ReconCalls) :
         ReconCalls[i].op = "updateUser" =>
           ReconCalls[i].userId = The(reconOut).workOsUser.id
    /\ completedCount <= 1
    /\ completedCount = stepSuccess[1]
    /\ errorCount = 0
    /\ failures = << >>

\* the password update and the verification of the matched user both failed,
\* and the job has counted the record as imported
C11_WitnessBothUpdatesFailed ==
  /\ SecondaryStepFailed
  /\ Len(ReconCalls) = 4
  /\ ReconCalls[3].answer.status = "error"
  /\ ReconCalls[4].answer.status = "error"
  /\ The(reconOut).kind = "true"
  /\ completedCount = 1

-----------------------------------------------------------------------------
(* Properties of the email verification policy on CSV input (SpecReconcile) *)

\* a verify-email update was sent
VerifyIssued ==
  \E i \in 1..Len(ReconCalls) :
    ReconCalls[i].op = "updateUser" /\ ReconCalls[i].emailVerified

\* the row's verified_email_addresses column contains its primary email,
\* compared case-insensitively
PrimaryInVerifiedColumn(row) ==
  /\ IsPresent(ToNull(row.primary_email_address))
  /\ \E i \in 1..Len(SplitList(row.verified_email_addresses)) :
       ToLowerCase(SplitList(row.verified_email_addresses)[i])
         = ToLowerCase(The(ToNull(row.primary_email_address)))

\* C12: for a CSV row that processLine imports, a verify-email update is sent
\* under "always", none under "never", and under "from-csv" exactly when the
\* verified_email_addresses column contains the primary email.
C12_VerificationPolicyOnCsv ==
  (ReconDone /\ reconIn.format = "csv" /\ The(reconOut).kind = "true") =>
    IF reconIn.emailVerifiedMode = "always" THEN VerifyIssued
    ELSE IF reconIn.emailVerifiedMode = "never" THEN ~VerifyIssued
    ELSE VerifyIssued <=> PrimaryInVerifiedColumn(reconIn.row)

-----------------------------------------------------------------------------
(* Properties of the failure list and the error report (Spec) *)

\* C13 as the claim states it: the rows of the report are in ascending
\* recordNumber order.
C13_ReportSortedAscending ==
  summary # Absent =>
    \A i, j \in 1..Len(The(summary).report) :
      i < j => The(summary).report[i].recordNumber < The(summary).report[j].recordNumber

\* C13: the failure list is in the order in which the failing units
\* completed: a failure is appended behind the entries already there, for the
\* unit that just finished, and the report has the rows of the failure list
\* in that same order.
C13_ReportInCompletionOrder ==
  [][/\ failures' # failures =>
          /\ Len(failures') = Len(failures) + 1
          /\ SubSeq(failures', 1, Len(failures)) = failures
          /\ \E u \in running :
               u \notin running' /\ failures'[Len(failures')].recordNumber = u.recordNumber
     /\ summary' # summary => The(summary').report = failures]_vars

\* the report lists a later record before an earlier one
C13_WitnessOutOfOrderReport ==
  /\ summary # Absent
  /\ Len(The(summary).report) = 2
  /\ The(summary).report[1].recordNumber > The(summary).report[2].recordNumber

-----------------------------------------------------------------------------
(* Properties of the record source (SpecSource) *)

DeliveredSoFar == IndexedValues(SubSeq(ParserValues(file), 1, srcDelivered))

\* C14: what the consumer has received, followed by what the queue holds, is
\* exactly what the parser delivered so far, in delivery order; the sequence
\* ends only after end-of-file with every element of the file received; a
\* waiting consumer has its resolver registered and an empty queue before
\* it; and after end-of-file the consumer is not waiting.
C14_SourceYieldsInOrder ==
  /\ srcYielded \o srcQueue = DeliveredSoFar
  /\ srcPc = "ended" => (srcStatus = "ended" /\ srcYielded = file)
  /\ srcPc = "await" => (deferredResolve /\ srcQueue = << >> /\ ~srcDone)
  /\ srcStatus = "ended" => srcPc # "await"

\* a file of three records was read to its end while the consumer lagged
\* behind and then caught up
C14_WitnessDrainedAfterEnd ==
  /\ Len(file) = 3
  /\ srcPc = "ended"
  /\ srcYielded = file
  /\ file[1] # file[2]

\* C15: when the file cannot be read the run does not end with exit code 0
\* and the sequence does not end as if the file were complete.
C15_ReadErrorAborts ==
  srcStatus = "failed" =>
    /\ srcPc # "ended"
    /\ proc = "exited" => exitCode = Some(1)

\* C16: the queue of the source never holds every record of the longest
\* file considered: the number of buffered records stays below a constant
\* that does not grow with the file.
C16_SourceNeverBuffersWholeFile ==
  Len(file) = NumRecords => Len(srcQueue) < Len(file)

-----------------------------------------------------------------------------
(* Properties of the record numbering (Spec) *)

UnitsOf(k) ==
  Cardinality({i \in 1..Len(waiting) : waiting[i].recordNumber = k})
    + Cardinality({u \in running : u.recordNumber = k})

\* C17: the record main() is about to admit is the next in source order;
\* every unit of work, queued or running, first attempt or retry, carries a
\* number between 1 and the number of admitted records together with the
\* record the source yielded at that position; and no number is carried by
\* two units.
C17_RecordNumbersInSourceOrder ==
  /\ fetched = (IF mainPc \in {"admit", "sizeWait"} THEN recordCount + 1 ELSE recordCount)
  /\ \A i \in 1..Len(waiting) :
       /\ waiting[i].recordNumber \in 1..recordCount
       /\ waiting[i].line = file[waiting[i].recordNumber]
  /\ \A u \in running :
       /\ u.recordNumber \in 1..recordCount
       /\ u.line = file[u.recordNumber]
  /\ \A k \in 1..recordCount : UnitsOf(k) <= 1

\* record 1 is queued again after its second throttle while records 2 and 3,
\* which differ from it, have been admitted
C17_WitnessRetriedKeepsNumber ==
  /\ warningCount = 2
  /\ recordCount = 3
  /\ file[1] = SingleLine
  /\ file[2] = MultiLine
  /\ \E i \in 1..Len(waiting) : waiting[i] = Unit(1, SingleLine)
  /\ Outcomes(1) = 0
  /\ Outcomes(2) = 1

-----------------------------------------------------------------------------
(* Properties of the time spent paused (Spec) *)

SoonestWakeUp == CHOOSE n \in {t.left : t \in timers} : \A t \in timers : n <= t.left

\* C18 as the claim states it: once no handler sleeps any more, the queue
\* has been paused for the sum of the waits of the throttles handled.
C18_PausedTimeIsSum ==
  (timers = {} /\ ~isPaused) => pausedSeconds = waitSeconds

\* C18: the waits of overlapping throttles are not added up. The queue is
\* paused only while a handler sleeps and never longer than the sum of the
\* waits; the end of any sleep resumes it, whatever handlers still sleep;
\* so while two handlers sleep at once, the time paused so far plus the
\* time to the next wake-up is less than the sum of the waits.
C18_PausesOverlap ==
  /\ [](isPaused => timers # {})
  /\ [](pausedSeconds <= waitSeconds)
  /\ [](Cardinality(timers) >= 2 => pausedSeconds + SoonestWakeUp < waitSeconds)
  /\ [][timers' # timers /\ timers' \subseteq timers => ~isPaused']_vars

\* two handlers slept at once and the queue runs again although one of them
\* still sleeps: paused for one second, not for the sum
C18_WitnessResumedEarly ==
  /\ warningCount = 2
  /\ ~isPaused
  /\ \E t \in timers : t.left > 0
  /\ pausedSeconds = 1
  /\ waitSeconds = DEFAULT_RETRY_AFTER + 2

-----------------------------------------------------------------------------
(* Properties of the six-record run (SpecScenario) *)

\* C19 as the claim states it: the summary shows imported = 4, errors = 1,
\* total = 6 and warnings = 0 or 1.
C19_SummaryShowsFourImported ==
  summary # Absent =>
    /\ The(summary).imported = 4
    /\ The(summary).errors = 1
    /\ The(summary).total = 6
    /\ The(summary).warnings \in {0, 1}

\* C19: in the six-record run the summary shows total = 6, errors = 1 (the
\* two-email record, listed alone in the report), warnings = 1, status
\* Partial, and imported = 5 when the retry of record 5 has completed by
\* then, 4 when the summary is printed while that retry is still outstanding.
C19_SummaryOfSixRecordRun ==
  [][summary' # summary =>
       /\ The(summary').total = 6
       /\ The(summary').errors = 1
       /\ The(summary').warnings = 1
       /\ The(summary').status = "Partial"
       /\ stepSuccess[5] \in {0, 1}
       /\ The(summary').imported = 4 + stepSuccess[5]
       /\ Len(The(summary').report) = 1
       /\ The(summary').report[1].recordNumber = 2]_vars

\* the summary of a run in which the retry of record 5 came in before it
C19_WitnessFiveImported ==
  /\ summary # Absent
  /\ The(summary).imported = 5
  /\ The(summary).warnings = 1
  /\ The(summary).total = 6
  /\ Outcomes(5) = 1

\* the number of units admitted and not yet completed: queued or running
InFlightCount == Len(waiting) + Cardinality(running)

-----------------------------------------------------------------------------
(* Properties of termination (SpecLive) *)

\* C21: with a finite source, remote calls that all return and finitely many
\* throttles, the run reaches Done: main() gets past the summary, every pause
\* is followed by a resume, and an admitter that waits for room is let through.
C21_RunReachesDone ==
  /\ <>(mainPc = "done")
  /\ isPaused ~> ~isPaused
  /\ (mainPc = "sizeWait") ~> (mainPc = "admit")

-----------------------------------------------------------------------------
(* Properties of the retries (Spec) *)

\* C22 as the claim states it: no record is submitted to the Reconciler more
\* than twice in a run.
C22_AtMostTwoAttempts == \A k \in RecordNumbers : attempts[k] <= 2

\* C22: every throttle of a record is followed by one more attempt for it,
\* also when the attempt that was throttled was itself a retry: a record that
\* was admitted has been started, or is queued to be started, once more than
\* it was throttled, and at most one unit of it is queued or running.
C22_OneRetryPerThrottle ==
  \A k \in 1..recordCount :
    /\ attempts[k] + Cardinality({i \in 1..Len(waiting) : waiting[i].recordNumber = k})
         = 1 + throttledOf[k]
    /\ Cardinality({i \in 1..Len(waiting) : waiting[i].recordNumber = k})
         + Cardinality({u \in running : u.recordNumber = k}) <= 1
    /\ attempts[k] = throttledOf[k] + Outcomes(k)
                       + Cardinality({u \in running : u.recordNumber = k})

\* a record was throttled twice and imported on its third attempt
C22_WitnessThirdAttemptImported ==
  \E k \in 1..recordCount :
    /\ throttledOf[k] = 2
    /\ attempts[k] = 3
    /\ stepSuccess[k] = 1

-----------------------------------------------------------------------------
(* Properties of the source on records with nested values (SpecNested) *)

\* the top-level array elements among the values the parser delivered
RECURSIVE TopLevelValues(_)
TopLevelValues(values) ==
  IF values = << >> THEN << >>
  ELSE (IF Head(values).depth = 1 THEN <<Head(values).value>> ELSE << >>)
         \o TopLevelValues(Tail(values))

\* C23: what the source has yielded or holds in its queue is exactly the
\* top-level array elements delivered so far: nothing nested inside a record
\* is among it.
C23_YieldsTopLevelElementsOnly ==
  srcYielded \o srcQueue = TopLevelValues(SubSeq(ParserValues(file), 1, srcDelivered))

-----------------------------------------------------------------------------
(* Properties of ndjsonStream (SpecNdjson) *)

\* C24: ndjsonStream hands the consumer the elements of the array in file
\* order, each once; it ends only with every element of the file yielded;
\* and once the file is read to its end the consumer is not left waiting.
C24_NdjsonYieldsEveryElement ==
  /\ srcYielded \o srcQueue = DeliveredSoFar
  /\ srcPc = "ended" => srcYielded = file
  /\ srcStatus = "ended" => srcPc # "await"

-----------------------------------------------------------------------------
(* Properties of records without id or email (SpecReconcile) *)

\* the record handed to processLine has no id, or no email address: for a CSV
\* row, its id column or all of its email columns are empty
LacksIdOrEmail ==
  IF reconIn.format = "csv"
  THEN \/ ~IsPresent(reconIn.row.id)
       \/ MergeEmails(reconIn.row.primary_email_address,
                      reconIn.row.verified_email_addresses,
                      reconIn.row.unverified_email_addresses) = << >>
  ELSE \/ ~IsPresent(reconIn.line.id)
       \/ ~IsPresent(reconIn.line.email_addresses)
       \/ \A i \in 1..Len(SplitPipe(The(reconIn.line.email_addresses))) :
            SplitPipe(The(reconIn.line.email_addresses))[i] = << >>

\* C25: a record without id or without any email address is rejected by the
\* validation: processLine makes no remote call for it and does not report
\* it imported.
C25_IncompleteRecordRejected ==
  (reconOut # Absent /\ LacksIdOrEmail) =>
    /\ ReconCalls = << >>
    /\ The(reconOut).kind # "true"

-----------------------------------------------------------------------------
(* Properties of the merged email list of a CSV row (SpecCsv) *)

\* the addresses of the three email columns of the row, primary first
ColumnAddresses ==
  SplitList(reconIn.row.primary_email_address)
    \o SplitList(reconIn.row.verified_email_addresses)
    \o SplitList(reconIn.row.unverified_email_addresses)

\* the merged list as findOrCreateUser reads it from the email_addresses of
\* the record the source yielded
MergedAddresses ==
  IF The(srcYielded[1].email_addresses) = << >> THEN << >>
  ELSE SplitPipe(The(srcYielded[1].email_addresses))

\* the place of the first address of the columns that equals e when lowercased
FirstOccurrence(e) ==
  CHOOSE i \in 1..Len(ColumnAddresses) :
    /\ ToLowerCase(ColumnAddresses[i]) = ToLowerCase(e)
    /\ \A j \in 1..(i - 1) : ToLowerCase(ColumnAddresses[j]) # ToLowerCase(e)

\* C26: the merged list of a CSV row holds every address of the columns once
\* (compared in lower case), written as at its first occurrence, in the order
\* of the first occurrences over primary, verified, unverified; when the
\* primary column names an address, that address is the first entry.
C26_MergedEmailsDistinctInOrder ==
  srcYielded # << >> =>
    /\ \A i, j \in 1..Len(MergedAddresses) :
         ToLowerCase(MergedAddresses[i]) = ToLowerCase(MergedAddresses[j]) => i = j
    /\ \A i \in 1..Len(ColumnAddresses) :
         \E j \in 1..Len(MergedAddresses) :
           ToLowerCase(MergedAddresses[j]) = ToLowerCase(ColumnAddresses[i])
    /\ \A j \in 1..Len(MergedAddresses) :
         /\ \E i \in 1..Len(ColumnAddresses) :
              ToLowerCase(ColumnAddresses[i]) = ToLowerCase(MergedAddresses[j])
         /\ MergedAddresses[j] = ColumnAddresses[FirstOccurrence(MergedAddresses[j])]
    /\ \A i, j \in 1..Len(MergedAddresses) :
         i < j => FirstOccurrence(MergedAddresses[i]) < FirstOccurrence(MergedAddresses[j])
    /\ SplitList(reconIn.row.primary_email_address) # << >> =>
         MergedAddresses[1] = SplitList(reconIn.row.primary_email_address)[1]
    /\ (IsPresent(reconIn.row.primary_email_address)
        /\ The(reconIn.row.primary_email_address) # << >>
        /\ \A i \in 1..Len(The(reconIn.row.primary_email_address)) :
             ~IsListSeparator(The(reconIn.row.primary_email_address)[i])) =>
         MergedAddresses[1] = The(reconIn.row.primary_email_address)

\* a row whose verified column repeats the primary address in other case: the
\* merged list keeps the primary as written, then the unverified address
C26_WitnessDuplicateDropped ==
  /\ reconIn.format = "csv"
  /\ reconIn.row.primary_email_address = Some(<<"A">>)
  /\ reconIn.row.verified_email_addresses = Some(<<"a", ",", "A">>)
  /\ reconIn.row.unverified_email_addresses = Some(<<"b">>)
  /\ srcYielded # << >>
  /\ srcYielded[1].email_addresses = Some(<<"A", "|", "b">>)

-----------------------------------------------------------------------------
(* Properties of the counters (Spec) *)

\* C27: the error count is the length of the failure list, no recordNumber
\* appears twice in the failure list, imported + errors never exceeds the
\* number of records admitted, and no counter ever decreases.
C27_CountersConsistent ==
  /\ [](/\ errorCount = Len(failures)
        /\ \A i, j \in 1..Len(failures) :
             failures[i].recordNumber = failures[j].recordNumber => i = j
        /\ completedCount + errorCount <= recordCount)
  /\ [][/\ completedCount' >= completedCount
        /\ errorCount' >= errorCount
        /\ warningCount' >= warningCount
        /\ recordCount' >= recordCount]_vars

\* three records admitted: one failed the schema, one failed with an exception
\* after a throttle, one was imported
C27_WitnessEveryCounterMoved ==
  /\ recordCount = 3
  /\ completedCount = 1
  /\ errorCount = 2
  /\ warningCount >= 1
  /\ \E i \in 1..Len(failures) : failures[i].errorMessage = "ZodError"
  /\ \E i \in 1..Len(failures) :
       /\ failures[i].errorMessage = "Error"
       /\ throttledOf[failures[i].recordNumber] >= 1

-----------------------------------------------------------------------------
(* Properties of the warnings count (Spec) *)

\* the throttle signals handled so far, over all records
RECURSIVE ThrottlesUpTo(_)
ThrottlesUpTo(n) == IF n = 0 THEN 0 ELSE throttledOf[n] + ThrottlesUpTo(n - 1)
ThrottlesHandled == ThrottlesUpTo(recordCount)

\* C28: the warnings count is the number of throttle signals handled, one per
\* throttled attempt, and the summary shows the number of throttle signals
\* handled in the run.
C28_WarningsCountThrottles ==
  /\ warningCount = ThrottlesHandled
  /\ summary # Absent => The(summary).warnings = ThrottlesHandled

-----------------------------------------------------------------------------
(* Properties of the retry after a throttled verification (SpecRemote) *)

====
